---- MODULE Spec2Model ----
(***************************************************************************)
(* Model of the Threat-Analysis-Engine signature store                     *)
(* (definitions.py: DefinitionManager) and heuristic analyzer              *)
(* (heuristics.py: HeuristicEngine).                                       *)
(*                                                                         *)
(* Strings that the code inspects character by character (the lines of the *)
(* flat hash lists, the hashes, the threat names) are sequences of         *)
(* one-character strings.  Strings the code only compares or copies        *)
(* (versions, timestamps) are TLA+ strings.                                *)
(***************************************************************************)
EXTENDS Integers, Sequences, FiniteSets, TLC

VARIABLES
    definitions,            \* DefinitionManager.definitions (in-memory JSON value)
    last_updated_timestamp, \* DefinitionManager.last_updated_timestamp
    cacheFile,              \* virus_definitions_cache.json on disk
    markerFile,             \* last_updated.txt on disk
    md5File,                \* md5_hashes.txt on disk (never written by the program)
    sha256File,             \* sha_256_hashes.txt on disk (never written by the program)
    now,                    \* the wall clock read by datetime.now()
    lastCall,               \* what the last step did (observation only)
    step,                   \* position in the load / save / load round-trip scenario
    snap,                   \* the store as the first load of the scenario left it
    lastAnalyze,            \* observation of the last HeuristicEngine.analyze_file call
    pc,                     \* main(): where the run is
    argv,                   \* main(): sys.argv[1:]
    env,                    \* main(): what the scan target is and what the scanner reports
    exitCode,               \* main(): the process exit code, -1 while running
    fetches,                \* main(): fetch attempts made so far in the run
    cursor,                 \* main(): index of the scan result being handled
    events,                 \* main(): the calls the run has made so far, in order
    scanLog                 \* the audit log of scan results on disk

dmVars == <<definitions, last_updated_timestamp, cacheFile, markerFile,
            md5File, sha256File, now, lastCall>>
rtVars == <<step, snap>>
mainVars == <<pc, argv, env, exitCode, fetches, cursor, events, scanLog>>
vars == <<definitions, last_updated_timestamp, cacheFile, markerFile,
          md5File, sha256File, now, lastCall, step, snap, lastAnalyze,
          pc, argv, env, exitCode, fetches, cursor, events, scanLog>>

----------------------------------------------------------------------------
(* Bounds *)

\* The clock takes the values 1..MaxClock.
MaxClock == 2

----------------------------------------------------------------------------
(* Character strings *)

\* str.strip() removes leading and trailing whitespace.
Whitespace == {" ", "\t", "\n", "\r"}

RECURSIVE LStrip(_)
LStrip(s) ==
    IF s = <<>> THEN s
    ELSE IF Head(s) \in Whitespace THEN LStrip(Tail(s)) ELSE s

RECURSIVE RStrip(_)
RStrip(s) ==
    IF s = <<>> THEN s
    ELSE IF s[Len(s)] \in Whitespace THEN RStrip(SubSeq(s, 1, Len(s) - 1)) ELSE s

Strip(s) == RStrip(LStrip(s))

\* Index of the first comma of s, 0 when there is none (',' in line; split(',', 1)).
RECURSIVE CommaFrom(_, _)
CommaFrom(s, i) ==
    IF i > Len(s) THEN 0
    ELSE IF s[i] = "," THEN i ELSE CommaFrom(s, i + 1)

FirstComma(s) == CommaFrom(s, 1)

\* str.upper() and str.lower() on ASCII letters.
LowerLetters == <<"a", "b", "c", "d", "e", "f", "g", "h", "i", "j", "k", "l", "m",
                  "n", "o", "p", "q", "r", "s", "t", "u", "v", "w", "x", "y", "z">>
UpperLetters == <<"A", "B", "C", "D", "E", "F", "G", "H", "I", "J", "K", "L", "M",
                  "N", "O", "P", "Q", "R", "S", "T", "U", "V", "W", "X", "Y", "Z">>

UpperOf == [c \in {LowerLetters[i] : i \in 1..26} |->
              UpperLetters[CHOOSE i \in 1..26 : LowerLetters[i] = c]]

UpperChar(c) == IF c \in DOMAIN UpperOf THEN UpperOf[c] ELSE c

LowerChar(c) ==
    IF \E l \in DOMAIN UpperOf : UpperOf[l] = c
    THEN CHOOSE l \in DOMAIN UpperOf : UpperOf[l] = c
    ELSE c

Upper(s) == [i \in 1..Len(s) |-> UpperChar(s[i])]
Lower(s) == [i \in 1..Len(s) |-> LowerChar(s[i])]

HexDigits == {"0", "1", "2", "3", "4", "5", "6", "7", "8", "9",
              "a", "b", "c", "d", "e", "f", "A", "B", "C", "D", "E", "F"}

IsHex(s) == \A i \in 1..Len(s) : s[i] \in HexDigits

\* n copies of the character c.
Rep(c, n) == [i \in 1..n |-> c]

----------------------------------------------------------------------------
(* The two hash algorithms *)

MD5Len == 32
SHA256Len == 64

TypeMd5 == <<"m", "d", "5">>
TypeSha256 == <<"s", "h", "a", "2", "5", "6">>

\* f"Generic {hash_type.upper()} Threat"
GenericName(hash_type) ==
    <<"G", "e", "n", "e", "r", "i", "c", " ">> \o Upper(hash_type)
        \o <<" ", "T", "h", "r", "e", "a", "t">>

----------------------------------------------------------------------------
(* Mappings hash -> threat name (Python dicts) *)

EmptyMap == [k \in {} |-> <<>>]

\* hashes[h] = name
Put(m, k, v) == [x \in (DOMAIN m) \cup {k} |-> IF x = k THEN v ELSE m[x]]

----------------------------------------------------------------------------
(* _load_hashes_from_txt *)

\* The hash h that the loop body reads from a line of the file.
LineHash(rawline) ==
    LET line == Strip(rawline)
        c    == FirstComma(line)
    IN  IF c > 0 THEN Strip(SubSeq(line, 1, c - 1)) ELSE line

\* The threat name that the loop body reads from a line of the file.
LineName(rawline, hash_type) ==
    LET line == Strip(rawline)
        c    == FirstComma(line)
    IN  IF c > 0 THEN Strip(SubSeq(line, c + 1, Len(line)))
        ELSE GenericName(hash_type)

\* One iteration of the loop over the lines of the file.
ParseLine(hashes, rawline, hash_type) ==
    LET line == Strip(rawline)
        h    == LineHash(rawline)
        name == LineName(rawline, hash_type)
    IN  IF line = <<>> THEN hashes
        ELSE IF Len(h) = MD5Len /\ hash_type = TypeMd5 THEN Put(hashes, h, name)
        ELSE IF Len(h) = SHA256Len /\ hash_type = TypeSha256 THEN Put(hashes, h, name)
        ELSE hashes

RECURSIVE ParseLines(_, _, _)
ParseLines(hashes, lines, hash_type) ==
    IF lines = <<>> THEN hashes
    ELSE ParseLines(ParseLine(hashes, Head(lines), hash_type), Tail(lines), hash_type)

\* A flat file is absent, present but unreadable (open raises, the except
\* branch returns the empty dict), or a sequence of lines.
LoadHashesFromTxt(file, hash_type) ==
    IF file.state = "lines" THEN ParseLines(EmptyMap, file.lines, hash_type)
    ELSE EmptyMap

----------------------------------------------------------------------------
(* JSON values: the in-memory database, the cache snapshot, the remote document *)

\* Marks a key that the JSON object does not have.
Absent == "<absent>"

MetaDict(v, lu) == [kind |-> "dict", version |-> v, last_updated |-> lu]
MetaAbsent == [kind |-> "absent", version |-> Absent, last_updated |-> Absent]
\* "metadata" is present but is not an object (a string, a number, null, a list).
MetaNonDict == [kind |-> "nondict", version |-> Absent, last_updated |-> Absent]

Obj(hasMd5, md5, hasSha256, sha256, meta) ==
    [isObject |-> TRUE, hasMd5 |-> hasMd5, md5 |-> md5,
     hasSha256 |-> hasSha256, sha256 |-> sha256, meta |-> meta]

\* Valid JSON whose top level is not an object (a list, a string, a number, null).
NonObject ==
    [isObject |-> FALSE, hasMd5 |-> FALSE, md5 |-> EmptyMap,
     hasSha256 |-> FALSE, sha256 |-> EmptyMap, meta |-> MetaAbsent]

\* DefinitionManager.__init__
InitDefinitions == Obj(TRUE, EmptyMap, TRUE, EmptyMap, MetaDict("0.1.0", "Never"))

\* The "default empty" database of load_definitions.
EmptyDefinitions == Obj(TRUE, EmptyMap, TRUE, EmptyMap, MetaDict("0.0.0", "Never"))

TxtVersion == "1.0.0 (from local TXT files)"

\* datetime.now().isoformat() at clock value t
IsoFormat(t) == "2026-01-01T00:00:0" \o ToString(t)

\* d.get("metadata", {}).get("version", "0.0"); raises when d or its metadata
\* has no get method.
VersionRaises(d) == ~d.isObject \/ d.meta.kind = "nondict"
VersionOf(d) ==
    IF d.meta.kind = "dict" /\ d.meta.version # Absent THEN d.meta.version ELSE "0.0"

----------------------------------------------------------------------------
(* The cache file *)

\* state: "absent", "invalid" (exists, not valid JSON) or "json" (exists, parses
\* to doc).  readable: whether open(..., 'r') succeeds on the existing file.
CacheAbsent == [state |-> "absent", readable |-> TRUE, doc |-> NonObject]
CacheInvalid(r) == [state |-> "invalid", readable |-> r, doc |-> NonObject]
CacheJson(r, d) == [state |-> "json", readable |-> r, doc |-> d]

SaveOutcomes == {"ok", "denied"}

\* A variant that dumps the two mappings without the metadata.
SaveResultMappingsOnly(defs, cache, outcome) ==
    LET r == IF cache.state = "absent" THEN TRUE ELSE cache.readable
    IN  IF outcome = "ok" THEN CacheJson(r, [defs EXCEPT !.meta = MetaAbsent])
        ELSE cache

\* save_definitions: json.dump of the in-memory value into the cache file.
\*   "ok"      the file now holds the dumped value;
\*   "denied"  open(..., 'w') raised, the file is as before.
\* Every exception is caught; the method always returns normally.
\* An existing file keeps its permissions, a created file is readable.
SaveResult(defs, cache, outcome) ==
    LET r == IF cache.state = "absent" THEN TRUE ELSE cache.readable
    IN  IF outcome = "ok" THEN CacheJson(r, defs) ELSE cache

----------------------------------------------------------------------------
(* load_definitions *)

\* The cache branch of load_definitions returns: the file exists, opens,
\* parses, and the parsed value has a metadata object to call .get on.
CacheHit(cache) ==
    /\ cache.state = "json"
    /\ cache.readable
    /\ cache.doc.isObject
    /\ cache.doc.meta.kind = "dict"

\* The result of load_definitions started with in-memory value defs and
\* timestamp lut, at clock value t, when the save it may perform ends as so.
\* path: "cache" (returned from the cache branch), "txt" (flat files, cached),
\*       "empty" (nothing recovered), "raise" (an exception left the method).
LoadResult(defs, lut, cache, md5f, sha256f, t, so) ==
    LET opened   == cache.state # "absent" /\ cache.readable
        parsed   == opened /\ cache.state = "json"
        \* self.definitions = json.load(f)
        defs1    == IF parsed THEN cache.doc ELSE defs
        \* self.definitions["metadata"].get("last_updated", "Never")
        cacheHit == CacheHit(cache)
        m5       == LoadHashesFromTxt(md5f, TypeMd5)
        s256     == LoadHashesFromTxt(sha256f, TypeSha256)
        defs3    == [defs1 EXCEPT !.hasMd5 = TRUE, !.md5 = m5,
                                  !.hasSha256 = TRUE, !.sha256 = s256]
        stamp    == IsoFormat(t)
        defs4    == [defs3 EXCEPT !.meta.version = TxtVersion,
                                  !.meta.last_updated = stamp]
    IN  IF cacheHit THEN
            [definitions |-> defs1,
             lut |-> IF defs1.meta.last_updated = Absent THEN "Never"
                     ELSE defs1.meta.last_updated,
             cacheFile |-> cache, raised |-> FALSE, path |-> "cache", saveOut |-> "-"]
        ELSE IF ~defs1.isObject THEN
            \* self.definitions["md5"] = ... on a non-object
            [definitions |-> defs1, lut |-> lut, cacheFile |-> cache,
             raised |-> TRUE, path |-> "raise", saveOut |-> "-"]
        ELSE IF m5 # EmptyMap \/ s256 # EmptyMap THEN
            IF defs3.meta.kind # "dict" THEN
                \* self.definitions["metadata"]["version"] = ... without a metadata object
                [definitions |-> defs3, lut |-> lut, cacheFile |-> cache,
                 raised |-> TRUE, path |-> "raise", saveOut |-> "-"]
            ELSE
                [definitions |-> defs4, lut |-> stamp,
                 cacheFile |-> SaveResult(defs4, cache, so),
                 raised |-> FALSE, path |-> "txt", saveOut |-> so]
        ELSE
            [definitions |-> EmptyDefinitions, lut |-> "Never", cacheFile |-> cache,
             raised |-> FALSE, path |-> "empty", saveOut |-> "-"]

----------------------------------------------------------------------------
(* update_definitions *)

FetchOutcomes == {"ok", "neterr", "badjson"}
MarkerOutcomes == {"ok", "fail"}

\* A variant that tries the fetch a second time after a transport failure.
FetchAttemptsRetry(fetch) == IF fetch = "neterr" THEN 2 ELSE 1

\* requests.get is called once in a call, whatever its outcome.
FetchAttempts(fetch) == 1

\* A variant with the force flag tested the wrong way round.
IsCurrentWhenForced(force, online, defs) ==
    force /\ VersionOf(online) = VersionOf(defs)

\* if not force and online_version == local_version
IsCurrent(force, online, defs) == ~force /\ VersionOf(online) = VersionOf(defs)

\* The result of update_definitions(force).
\*   fetch: "ok" (the response parses to the JSON value online), "neterr"
\*          (requests.get or raise_for_status raised a RequestException),
\*          "badjson" (response.json() raised);
\*   so, mo: how the snapshot write and the marker-file write end.
\* path: where the method left: "neterr", "badjson", "badshape" (a .get on a
\*   value without that method), "current" (versions equal, not forced),
\*   "nometa" (KeyError on the fetched document's metadata), "markerfail"
\*   (the marker-file write raised), "updated" (return True).
UpdateResult(defs, lut, cache, marker, force, fetch, online, t, so, mo) ==
    LET same(p) == [definitions |-> defs, lut |-> lut, cacheFile |-> cache,
                    markerFile |-> marker, ret |-> FALSE, path |-> p,
                    fetches |-> FetchAttempts(fetch), saveOut |-> "-",
                    markerOut |-> "-"]
        stamp   == IsoFormat(t)
        defs1   == [online EXCEPT !.meta.last_updated = stamp]
        cache1  == SaveResult(defs1, cache, so)
    IN  IF fetch # "ok" THEN same(fetch)
        ELSE IF VersionRaises(online) \/ VersionRaises(defs) THEN same("badshape")
        ELSE IF IsCurrent(force, online, defs) THEN same("current")
        ELSE IF online.meta.kind # "dict" THEN
            \* self.definitions = online_defs, then KeyError on ["metadata"]
            [same("nometa") EXCEPT !.definitions = online]
        ELSE IF mo # "ok" THEN
            [definitions |-> defs1, lut |-> stamp, cacheFile |-> cache1,
             markerFile |-> marker, ret |-> FALSE, path |-> "markerfail",
             fetches |-> FetchAttempts(fetch), saveOut |-> so, markerOut |-> mo]
        ELSE
            [definitions |-> defs1, lut |-> stamp, cacheFile |-> cache1,
             markerFile |-> stamp, ret |-> TRUE, path |-> "updated",
             fetches |-> FetchAttempts(fetch), saveOut |-> so, markerOut |-> mo]

----------------------------------------------------------------------------
(* heuristics.py: HeuristicEngine *)

\* sub in s
Contains(s, sub) ==
    \E i \in 1..(Len(s) - Len(sub) + 1) : SubSeq(s, i, i + Len(sub) - 1) = sub

\* s.endswith(suf)
EndsWith(s, suf) ==
    Len(s) >= Len(suf) /\ SubSeq(s, Len(s) - Len(suf) + 1, Len(s)) = suf

\* Position of the last occurrence of the character c in s, 0 when there is none.
RECURSIVE LastIndexFrom(_, _, _)
LastIndexFrom(s, c, i) ==
    IF i = 0 THEN 0
    ELSE IF s[i] = c THEN i ELSE LastIndexFrom(s, c, i - 1)

LastIndex(s, c) == LastIndexFrom(s, c, Len(s))

\* os.path.basename
Basename(path) == SubSeq(path, LastIndex(path, "/") + 1, Len(path))

\* os.path.splitext(filename)[1]: from the last dot on, unless the name has no
\* dot or only leading dots.
SplitExt(filename) ==
    LET d == LastIndex(filename, ".")
    IN  IF d = 0 \/ (\A i \in 1..d : filename[i] = ".") THEN <<>>
        ELSE SubSeq(filename, d, Len(filename))

\* self.suspicious_keywords
KeywordsScript ==
    << <<"e", "v", "a", "l", "(">>,
       <<"e", "x", "e", "c", "(">>,
       <<"b", "a", "s", "e", "6", "4">>,
       <<"p", "o", "w", "e", "r", "s", "h", "e", "l", "l">>,
       <<"c", "m", "d", ".", "e", "x", "e">>,
       <<"/", "b", "i", "n", "/", "b", "a", "s", "h">>,
       <<"w", "g", "e", "t", " ">>,
       <<"c", "u", "r", "l", " ">>,
       <<"s", "y", "s", "t", "e", "m", "(">>,
       <<"c", "h", "o", "w", "n", " ">>,
       <<"c", "h", "m", "o", "d", " ">>,
       <<"r", "m", " ", "-", "r", "f">>,
       <<"m", "s", "h", "t", "a">>,
       <<"r", "e", "g", "s", "v", "r", "3", "2">>,
       <<"r", "u", "n", "d", "l", "l", "3", "2">> >>

KeywordsExecutable ==
    << <<"V", "i", "r", "t", "u", "a", "l", "A", "l", "l", "o", "c">>,
       <<"W", "r", "i", "t", "e", "P", "r", "o", "c", "e", "s", "s", "M", "e", "m", "o", "r", "y">>,
       <<"C", "r", "e", "a", "t", "e", "R", "e", "m", "o", "t", "e", "T", "h", "r", "e", "a", "d">>,
       <<"L", "o", "a", "d", "L", "i", "b", "r", "a", "r", "y">>,
       <<"G", "e", "t", "P", "r", "o", "c", "A", "d", "d", "r", "e", "s", "s">> >>

KeywordsGeneral ==
    << <<"M", "Z">>,
       <<"E", "L", "F">> >>

\* self.entropy_threshold = 7.0, in hundredths
EntropyThreshold == 700

ScriptSuffixes == {<<".", "p", "s", "1">>, <<".", "s", "h">>, <<".", "b", "a", "t">>, <<".", "j", "s">>, <<".", "v", "b", "s">>}
ExeSuffixes == {<<".", "e", "x", "e">>, <<".", "d", "l", "l">>}
ImageExts == {<<".", "j", "p", "g">>, <<".", "p", "n", "g">>, <<".", "g", "i", "f">>}
ExtTxt == <<".", "t", "x", "t">>

WordScript == <<"s", "c", "r", "i", "p", "t">>
WordText == <<"t", "e", "x", "t">>
WordExecutable == <<"e", "x", "e", "c", "u", "t", "a", "b", "l", "e">>
WordImage == <<"i", "m", "a", "g", "e">>
MimeXExecutable ==
    <<"a", "p", "p", "l", "i", "c", "a", "t", "i", "o", "n", "/", "x", "-", "e", "x",
      "e", "c", "u", "t", "a", "b", "l", "e">>
MimeOctetStream ==
    <<"a", "p", "p", "l", "i", "c", "a", "t", "i", "o", "n", "/", "o", "c", "t", "e",
      "t", "-", "s", "t", "r", "e", "a", "m">>
MimeMsDownload ==
    <<"a", "p", "p", "l", "i", "c", "a", "t", "i", "o", "n", "/", "x", "-", "m", "s",
      "d", "o", "w", "n", "l", "o", "a", "d">>
MimeDosExec ==
    <<"a", "p", "p", "l", "i", "c", "a", "t", "i", "o", "n", "/", "x", "-", "d", "o",
      "s", "e", "x", "e", "c">>
MimeTextPlain == <<"t", "e", "x", "t", "/", "p", "l", "a", "i", "n">>
MimeImagePng == <<"i", "m", "a", "g", "e", "/", "p", "n", "g">>
MimeShellScript == <<"t", "e", "x", "t", "/", "x", "-", "s", "h", "e", "l", "l", "s", "c", "r", "i", "p", "t">>

\* mimetypes.guess_type returned None / a check returned None.
NoMime == <<>>

\* A finding string, kept as its parts.  check: "entropy", "keyword",
\* "extension"; "none" stands for the None a check returns.
\*   "High Entropy (<value> > <threshold>)"             value
\*   "Suspicious Keywords: <joined set of keywords>"    kws
\*   "Extension mismatch: <ext> but detected as <mime>" ext, mime
Finding(check, value, kws, ext, mime) ==
    [check |-> check, value |-> value, kws |-> kws, ext |-> ext, mime |-> mime]
NoFinding == Finding("none", 0, {}, <<>>, <<>>)

ReadOutcomes == {"ok", "notfound", "denied", "error"}

\* check_file_entropy.  The file's bytes have Shannon entropy file.entropy
\* (in hundredths of a bit); read is how open/read ends.  Every exception
\* ends in return None.
CheckFileEntropy(file, read) ==
    IF read = "ok" /\ file.entropy > EntropyThreshold
    THEN Finding("entropy", file.entropy, {}, <<>>, <<>>)
    ELSE NoFinding

\* filepath.endswith(tuple of suffixes)
EndsWithAny(path, suffixes) == \E suf \in suffixes : EndsWith(path, suf)

\* "'<keyword>' in non-executable"
InNonExecutable(keyword) ==
    <<"'">> \o keyword \o <<"'">> \o
        <<" ", "i", "n", " ", "n", "o", "n", "-", "e", "x", "e", "c", "u", "t", "a", "b", "l", "e">>

\* The keywords of a list found in the lower-cased content.
Matched(keywords, content) ==
    { keywords[i] : i \in { j \in 1..Len(keywords) : Contains(content, Lower(keywords[j])) } }

\* check_suspicious_keywords.  file.guessed is mimetypes.guess_type(filepath)[0].
CheckSuspiciousKeywords(file, read) ==
    LET content   == Lower(file.content)
        mime_type == file.guessed
        scriptLike == /\ mime_type # NoMime
                      /\ \/ Contains(mime_type, WordScript)
                         \/ Contains(mime_type, WordText)
                         \/ EndsWithAny(file.path, ScriptSuffixes)
        exeLike    == /\ mime_type # NoMime
                      /\ \/ Contains(mime_type, WordExecutable)
                         \/ EndsWithAny(file.path, ExeSuffixes)
        detected   ==
            (IF scriptLike THEN Matched(KeywordsScript, content) ELSE {})
            \cup (IF exeLike THEN Matched(KeywordsExecutable, content) ELSE {})
            \cup (IF ~exeLike
                  THEN { InNonExecutable(k) : k \in Matched(KeywordsGeneral, content) }
                  ELSE {})
    IN  IF read = "ok" /\ detected # {}
        THEN Finding("keyword", 0, detected, <<>>, <<>>)
        ELSE NoFinding

SniffOutcomes == {"ok", "missing", "failed", "error"}

\* check_file_extension_mismatch.  sniff is how the `file` command ends:
\* "ok" (its output is file.sniffed), "missing" or "failed" (fall back to
\* mimetypes.guess_type), "error" (any other exception, caught, return None).
CheckFileExtensionMismatch(file, sniff) ==
    LET ext == Lower(SplitExt(Basename(file.path)))
        d   == IF sniff = "ok" THEN Strip(file.sniffed) ELSE file.guessed
        hit == Finding("extension", 0, {}, ext, d)
    IN  IF ext = <<>> THEN NoFinding
        ELSE IF sniff = "error" THEN NoFinding
        ELSE IF d = NoMime THEN NoFinding
        ELSE IF /\ ext = ExtTxt
                /\ \/ Contains(d, WordExecutable)
                   \/ Contains(d, MimeXExecutable)
                   \/ (Contains(d, MimeOctetStream) /\ d # MimeTextPlain)
             THEN hit
        ELSE IF ext \in ImageExts /\ ~Contains(d, WordImage) THEN hit
        ELSE IF /\ ext \in ExeSuffixes
                /\ ~ \/ Contains(d, WordExecutable)
                     \/ Contains(d, MimeMsDownload)
                     \/ Contains(d, MimeDosExec)
             THEN hit
        ELSE NoFinding

\* if <detection>: detections.append(<detection>)
AppendIf(detections, f) == IF f # NoFinding THEN Append(detections, f) ELSE detections

\* A variant that runs the keyword check before the entropy check.
AnalyzeFileKeywordsFirst(file, entropyRead, keywordRead, sniff) ==
    IF ~file.exists \/ ~file.isFile THEN <<>>
    ELSE AppendIf(AppendIf(AppendIf(<<>>,
                CheckSuspiciousKeywords(file, keywordRead)),
                CheckFileEntropy(file, entropyRead)),
                CheckFileExtensionMismatch(file, sniff))

\* analyze_file
AnalyzeFile(file, entropyRead, keywordRead, sniff) ==
    IF ~file.exists \/ ~file.isFile THEN <<>>
    ELSE AppendIf(AppendIf(AppendIf(<<>>,
                CheckFileEntropy(file, entropyRead)),
                CheckSuspiciousKeywords(file, keywordRead)),
                CheckFileExtensionMismatch(file, sniff))

----------------------------------------------------------------------------
(* The data the model runs on *)

Evil == <<"E", "v", "i", "l">>
Worm == <<"W", "o", "r", "m">>

HashA32 == Rep("a", MD5Len)        \* well-formed MD5, lower case
HashUpA32 == Rep("A", MD5Len)      \* the same MD5 written in upper case
HashZ32 == Rep("z", MD5Len)        \* right length, not hexadecimal
HashB32 == Rep("b", MD5Len)
HashC64 == Rep("c", SHA256Len)     \* well-formed SHA256
HashShort == Rep("a", 3)           \* no algorithm has this length

FileAbsent == [state |-> "absent", lines |-> <<>>]
FileUnreadable == [state |-> "unreadable", lines |-> <<>>]
FileLines(ls) == [state |-> "lines", lines |-> ls]

LineShort == HashShort \o <<"\n">>
LineBlank == <<" ", "\n">>
LineA32 == HashA32 \o <<"\n">>
LineUpA32 == HashUpA32 \o <<"\n">>
LineB32Evil == <<" ">> \o HashB32 \o <<" ", ",", " ">> \o Evil \o <<"\n">>
LineZ32Worm == HashZ32 \o <<",">> \o Worm
LineC64 == HashC64 \o <<"\n">>

\* What md5_hashes.txt and sha_256_hashes.txt may hold: <<md5 file, sha256 file>>.
FlatFiles ==
    { <<FileAbsent, FileAbsent>>,
      <<FileUnreadable, FileLines(<<>>)>>,
      <<FileLines(<<LineShort, LineBlank>>), FileLines(<<LineA32>>)>>,
      <<FileLines(<<LineUpA32, LineB32Evil, LineShort>>), FileLines(<<LineC64, LineA32>>)>>,
      <<FileLines(<<LineZ32Worm>>), FileAbsent>> }

\* Documents the remote endpoint may serve.
OnlineDocs ==
    { Obj(TRUE, Put(EmptyMap, HashB32, Worm), TRUE, EmptyMap, MetaDict("2.0.0", "remote")),
      Obj(TRUE, Put(EmptyMap, HashShort, Evil), FALSE, EmptyMap, MetaDict(Absent, Absent)),
      Obj(TRUE, Put(EmptyMap, HashA32, Evil), TRUE, EmptyMap, MetaAbsent),
      Obj(TRUE, EmptyMap, TRUE, EmptyMap, MetaNonDict),
      NonObject }

\* What the cache file may hold when the program starts.
InitialCaches ==
    { CacheAbsent,
      CacheInvalid(TRUE),
      CacheJson(TRUE, Obj(TRUE, Put(EmptyMap, HashA32, Evil), TRUE, EmptyMap,
                          MetaDict("2.0.0", "2025-12-31T00:00:00"))),
      CacheJson(FALSE, Obj(TRUE, Put(EmptyMap, HashA32, Evil), TRUE, EmptyMap,
                           MetaDict("2.0.0", "2025-12-31T00:00:00"))),
      CacheJson(TRUE, Obj(TRUE, Put(EmptyMap, HashShort, Evil), TRUE, EmptyMap,
                          MetaDict("0.9.0", Absent))),
      CacheJson(TRUE, Obj(TRUE, Put(EmptyMap, HashB32, Worm), FALSE, EmptyMap, MetaAbsent)),
      CacheJson(TRUE, NonObject) }

\* The files handed to analyze_file.  path: the path as given; exists, isFile:
\* what os.path.exists and os.path.isfile answer; content: the file's text;
\* entropy: the Shannon entropy of its bytes in hundredths of a bit; guessed:
\* what mimetypes.guess_type answers for the path; sniffed: what the `file`
\* command prints for it.
Files ==
    {
      [path |-> <<"a", ".", "t", "x", "t">>, exists |-> TRUE, isFile |-> TRUE,
       content |-> <<"c", "u", "r", "l", " ", "h", "t", "t", "p", ":", "/", "/", "x">>,
       entropy |-> 450, guessed |-> MimeTextPlain, sniffed |-> MimeTextPlain \o <<"\n">>],
      [path |-> <<"b", ".", "t", "x", "t">>, exists |-> TRUE, isFile |-> TRUE,
       content |-> <<"M", "Z", " ", "V", "i", "r", "t", "u", "a", "l", "A", "l", "l", "o", "c">>,
       entropy |-> 750, guessed |-> MimeTextPlain, sniffed |-> MimeXExecutable \o <<"\n">>],
      [path |-> <<"c", ".", "e", "x", "e">>, exists |-> TRUE, isFile |-> TRUE,
       content |-> <<"M", "Z", " ", "L", "o", "a", "d", "L", "i", "b", "r", "a", "r", "y">>,
       entropy |-> 720, guessed |-> MimeMsDownload, sniffed |-> MimeDosExec \o <<"\n">>],
      [path |-> <<"d", ".", "E", "X", "E">>, exists |-> TRUE, isFile |-> TRUE,
       content |-> <<"M", "Z">>,
       entropy |-> 700, guessed |-> NoMime, sniffed |-> MimeTextPlain \o <<"\n">>],
      [path |-> <<"e", ".", "p", "n", "g">>, exists |-> TRUE, isFile |-> TRUE,
       content |-> <<"h", "e", "l", "l", "o">>,
       entropy |-> 790, guessed |-> MimeImagePng, sniffed |-> MimeTextPlain \o <<"\n">>],
      [path |-> <<"f">>, exists |-> TRUE, isFile |-> TRUE,
       content |-> <<"~", "E", "L", "F">>,
       entropy |-> 0, guessed |-> NoMime, sniffed |-> MimeOctetStream \o <<"\n">>],
      [path |-> <<"g", ".", "s", "h">>, exists |-> FALSE, isFile |-> FALSE,
       content |-> <<>>,
       entropy |-> 0, guessed |-> MimeShellScript, sniffed |-> NoMime],
      [path |-> <<"h", ".", "d">>, exists |-> TRUE, isFile |-> FALSE,
       content |-> <<>>,
       entropy |-> 0, guessed |-> NoMime, sniffed |-> NoMime],
      [path |-> <<"d", "a", "t", "a", ":", "i", ".", "e", "x", "e">>, exists |-> TRUE, isFile |-> TRUE,
       content |-> <<"m", "z", " ", "b", "a", "s", "e", "6", "4">>,
       entropy |-> 800, guessed |-> NoMime, sniffed |-> MimeDosExec \o <<"\n">>] }

NoAnalysis ==
    [called |-> FALSE,
     file |-> [path |-> <<>>, exists |-> FALSE, isFile |-> FALSE, content |-> <<>>,
               entropy |-> 0, guessed |-> NoMime, sniffed |-> NoMime],
     entropyRead |-> "-", keywordRead |-> "-", sniff |-> "-", detections |-> <<>>]

----------------------------------------------------------------------------
(* State machine of the DefinitionManager *)

\* No run of main() is in progress.
NoEnv == [target |-> "none", found |-> <<>>]
MainNotStarted ==
    /\ pc = "idle"
    /\ argv = <<>>
    /\ env = NoEnv
    /\ exitCode = -1
    /\ fetches = 0
    /\ cursor = 0
    /\ events = <<>>
    /\ scanLog = <<>>

NoCall ==
    [op |-> "init", force |-> FALSE, fetch |-> "-", online |-> NonObject,
     ret |-> FALSE, raised |-> FALSE, path |-> "-", fetches |-> 0, at |-> 0,
     saveOut |-> "-", markerOut |-> "-"]

Init ==
    /\ definitions = InitDefinitions
    /\ last_updated_timestamp = "Never"
    /\ cacheFile \in InitialCaches
    /\ markerFile = Absent
    /\ \E ff \in FlatFiles : md5File = ff[1] /\ sha256File = ff[2]
    /\ now = 1
    /\ lastCall = NoCall
    /\ step = "free"
    /\ snap = [definitions |-> InitDefinitions, lut |-> "Never"]
    /\ lastAnalyze = NoAnalysis
    /\ MainNotStarted

\* definition_manager.load_definitions()
LoadOp ==
    \E so \in SaveOutcomes :
        LET r == LoadResult(definitions, last_updated_timestamp, cacheFile,
                            md5File, sha256File, now, so)
        IN  /\ definitions' = r.definitions
            /\ last_updated_timestamp' = r.lut
            /\ cacheFile' = r.cacheFile
            /\ lastCall' = [NoCall EXCEPT !.op = "load", !.raised = r.raised,
                                          !.path = r.path, !.at = now,
                                          !.saveOut = r.saveOut]
            /\ UNCHANGED <<markerFile, md5File, sha256File, now>>

\* definition_manager.save_definitions()
SaveOp(outcomes) ==
    \E so \in outcomes :
        /\ cacheFile' = SaveResult(definitions, cacheFile, so)
        /\ lastCall' = [NoCall EXCEPT !.op = "save", !.path = so, !.at = now,
                                      !.saveOut = so]
        /\ UNCHANGED <<definitions, last_updated_timestamp, markerFile,
                       md5File, sha256File, now>>

\* What the environment answers during one update_definitions call.  The
\* outcomes of writes that cannot be reached (the fetch failed, or the fetched
\* document has no metadata object) are not enumerated.
UpdateInputs ==
    { i \in [fetch : FetchOutcomes, online : OnlineDocs,
             so : SaveOutcomes, mo : MarkerOutcomes] :
        /\ i.fetch # "ok" => i.online = NonObject
        /\ (i.fetch # "ok" \/ i.online.meta.kind # "dict") =>
               (i.so = "ok" /\ i.mo = "ok") }

\* definition_manager.update_definitions(force)
UpdateCall(force) ==
    \E inp \in UpdateInputs :
        LET fetch  == inp.fetch
            online == inp.online
            so     == inp.so
            mo     == inp.mo
            r == UpdateResult(definitions, last_updated_timestamp, cacheFile,
                              markerFile, force, fetch, online, now, so, mo)
        IN  /\ definitions' = r.definitions
            /\ last_updated_timestamp' = r.lut
            /\ cacheFile' = r.cacheFile
            /\ markerFile' = r.markerFile
            /\ lastCall' = [NoCall EXCEPT !.op = "update", !.force = force,
                                          !.fetch = fetch,
                                          !.online = IF fetch = "ok" THEN online
                                                     ELSE NonObject,
                                          !.ret = r.ret, !.path = r.path,
                                          !.fetches = r.fetches, !.at = now,
                                          !.saveOut = r.saveOut,
                                          !.markerOut = r.markerOut]
            /\ UNCHANGED <<md5File, sha256File, now>>

\* update_definitions with either value of force
UpdateOp == \E force \in BOOLEAN : UpdateCall(force)

\* Time passes between two calls.
TickOp ==
    /\ now < MaxClock
    /\ now' = now + 1
    /\ lastCall' = [NoCall EXCEPT !.op = "tick", !.at = now]
    /\ UNCHANGED <<definitions, last_updated_timestamp, cacheFile, markerFile,
                   md5File, sha256File>>

Load ==
    /\ step = "free"
    /\ LoadOp
    /\ UNCHANGED <<step, snap, lastAnalyze, mainVars>>
Save ==
    /\ step = "free"
    /\ SaveOp(SaveOutcomes)
    /\ UNCHANGED <<step, snap, lastAnalyze, mainVars>>
Update ==
    /\ step = "free"
    /\ UpdateOp
    /\ UNCHANGED <<step, snap, lastAnalyze, mainVars>>
Tick ==
    /\ step = "free"
    /\ TickOp
    /\ UNCHANGED <<step, snap, lastAnalyze, mainVars>>

Next == Load \/ Save \/ Update \/ Tick

Spec == Init /\ [][Next]_vars

----------------------------------------------------------------------------
(* The round-trip scenario: load, save (succeeding), load *)

\* The scenario starts from a store that any number of updates may have
\* changed since construction; time may pass between its calls; no file is
\* changed by anyone but the store itself.
RTUpdate ==
    /\ step = "free"
    /\ UpdateOp
    /\ UNCHANGED <<step, snap, lastAnalyze, mainVars>>

RTFirstLoad ==
    /\ step = "free"
    /\ LoadOp
    /\ step' = "loaded"
    /\ snap' = [definitions |-> definitions', lut |-> last_updated_timestamp']
    /\ UNCHANGED <<lastAnalyze, mainVars>>

RTSave ==
    /\ step = "loaded"
    /\ SaveOp({"ok"})
    /\ step' = "saved"
    /\ UNCHANGED <<snap, lastAnalyze, mainVars>>

RTSecondLoad ==
    /\ step = "saved"
    /\ LoadOp
    /\ step' = "done"
    /\ UNCHANGED <<snap, lastAnalyze, mainVars>>

RTTick ==
    /\ step # "done"
    /\ TickOp
    /\ UNCHANGED <<step, snap, lastAnalyze, mainVars>>

NextRT == RTUpdate \/ RTFirstLoad \/ RTSave \/ RTSecondLoad \/ RTTick

SpecRT == Init /\ [][NextRT]_vars

----------------------------------------------------------------------------
(* Properties of update_definitions *)

\* The document has a metadata object with a version string.
HasVersion(d) == d.isObject /\ d.meta.kind = "dict" /\ d.meta.version # Absent

\* The document has the shape of a signature database.
WellFormed(d) == HasVersion(d) /\ d.hasMd5 /\ d.hasSha256

\* The step leaves the store and its two files as they were.
StoreUntouched ==
    /\ definitions' = definitions
    /\ last_updated_timestamp' = last_updated_timestamp
    /\ cacheFile' = cacheFile
    /\ markerFile' = markerFile

\* C1: a non-forced update whose fetch and parse succeed and whose fetched
\* version string equals the local version string returns False and changes
\* neither the in-memory database, nor last_updated_timestamp, nor the cache
\* snapshot, nor the marker file.
C1_UnforcedSameVersionIsNoOp ==
    [][ ( /\ lastCall'.op = "update"
          /\ ~lastCall'.force
          /\ lastCall'.fetch = "ok"
          /\ HasVersion(lastCall'.online)
          /\ HasVersion(definitions)
          /\ lastCall'.online.meta.version = definitions.meta.version )
        => (~lastCall'.ret /\ StoreUntouched) ]_vars

\* C1 happens: a non-forced update met a fetched document of the local
\* version whose content differs from the local database.
C1_Witness ==
    /\ lastCall.op = "update"
    /\ ~lastCall.force
    /\ lastCall.fetch = "ok"
    /\ HasVersion(lastCall.online)
    /\ HasVersion(definitions)
    /\ lastCall.online.meta.version = definitions.meta.version
    /\ lastCall.online.md5 # definitions.md5

\* C2: a forced update whose fetch succeeds and yields a well-formed database
\* document always returns True, and afterwards the mappings and the version
\* are those of the fetched document and last_updated is the new timestamp.
C2_ForcedUpdateAlwaysReplaces ==
    [][ ( /\ lastCall'.op = "update"
          /\ lastCall'.force
          /\ lastCall'.fetch = "ok"
          /\ WellFormed(lastCall'.online) )
        => ( /\ lastCall'.ret
             /\ definitions'.md5 = lastCall'.online.md5
             /\ definitions'.sha256 = lastCall'.online.sha256
             /\ definitions'.meta.version = lastCall'.online.meta.version
             /\ definitions'.meta.last_updated = IsoFormat(now) ) ]_vars

\* C3: update_definitions returns True iff the in-memory database changed:
\* False implies it is what it was, True implies it is the fetched document
\* (stamped with the new timestamp).
C3_ReturnsTrueIffChanged ==
    [][ lastCall'.op = "update"
        => ( /\ ~lastCall'.ret => definitions' = definitions
             /\ lastCall'.ret =>
                   definitions' = [lastCall'.online EXCEPT
                                      !.meta.last_updated = IsoFormat(now)] ) ]_vars

\* C4: when the HTTP fetch fails, for either value of force, one fetch was
\* attempted, the call returns False, and the in-memory database,
\* last_updated_timestamp, the cache snapshot and the marker file are as before.
C4_FetchFailureAbandons ==
    [][ (lastCall'.op = "update" /\ lastCall'.fetch = "neterr")
        => (~lastCall'.ret /\ lastCall'.fetches = 1 /\ StoreUntouched) ]_vars

\* C4 happens: a forced update failed to fetch while the store held entries
\* and a snapshot existed.
C4_Witness ==
    /\ lastCall.op = "update"
    /\ lastCall.force
    /\ lastCall.fetch = "neterr"
    /\ definitions.isObject
    /\ definitions.md5 # EmptyMap
    /\ cacheFile.state = "json"

----------------------------------------------------------------------------
(* Properties of the database and of load_definitions *)

\* C5: in every reachable state every key of the md5 mapping has length 32
\* and every key of the sha256 mapping has length 64.
C5_KeyLengths ==
    /\ \A k \in DOMAIN definitions.md5 : Len(k) = MD5Len
    /\ \A k \in DOMAIN definitions.sha256 : Len(k) = SHA256Len

\* C6: load_definitions returns normally, whatever the cache file and the
\* flat files hold, and the database then holds the valid entries of the flat
\* files or is the explicit empty database (or is the cached snapshot).
C6_LoadNeverRaises ==
    lastCall.op = "load"
    => ( /\ ~lastCall.raised
         /\ lastCall.path = "txt" =>
               ( /\ definitions.md5 = LoadHashesFromTxt(md5File, TypeMd5)
                 /\ definitions.sha256 = LoadHashesFromTxt(sha256File, TypeSha256) )
         /\ lastCall.path = "empty" => definitions = EmptyDefinitions )

\* Hash strings looked up in the claims below.
Probes == {HashA32, HashUpA32, HashZ32, HashB32, HashShort, HashC64}

\* Some line of the flat file carries h, compared case-insensitively, as a
\* well-formed hexadecimal string of length n.
Carries(file, h, n) ==
    /\ file.state = "lines"
    /\ \E i \in 1..Len(file.lines) :
          /\ Len(LineHash(file.lines[i])) = n
          /\ IsHex(LineHash(file.lines[i]))
          /\ Lower(LineHash(file.lines[i])) = Lower(h)

\* C8: after a load from the flat files, a lookup of h hits in an algorithm's
\* mapping iff some line of that algorithm's file carries h, compared
\* case-insensitively, as a well-formed hex string of the algorithm's length.
C8_LookupIffCarried ==
    (lastCall.op = "load" /\ lastCall.path = "txt")
    => \A h \in Probes :
          /\ h \in DOMAIN definitions.md5 <=> Carries(md5File, h, MD5Len)
          /\ h \in DOMAIN definitions.sha256 <=> Carries(sha256File, h, SHA256Len)

\* C9: when load_definitions finds no usable cache and recovers at least one
\* entry from the flat files, it sets the version to the text-sources marker
\* and last_updated to the current timestamp, and persists a snapshot in the
\* same call, so that, if the write succeeded (and the file it wrote can be
\* opened for reading), the next load returns from the cache branch with the
\* same database.
C9_TxtLoadStampsAndCaches ==
    [][ ( /\ lastCall'.op = "load"
          /\ ~CacheHit(cacheFile)
          /\ \/ LoadHashesFromTxt(md5File, TypeMd5) # EmptyMap
             \/ LoadHashesFromTxt(sha256File, TypeSha256) # EmptyMap )
        => ( /\ definitions'.meta.kind = "dict"
             /\ definitions'.meta.version = TxtVersion
             /\ definitions'.meta.last_updated = IsoFormat(now)
             /\ lastCall'.saveOut # "-"
             /\ (lastCall'.saveOut = "ok" /\ cacheFile'.readable) =>
                   LET again == LoadResult(definitions', last_updated_timestamp',
                                           cacheFile', md5File, sha256File, now, "ok")
                   IN  /\ again.path = "cache"
                       /\ again.definitions = definitions'
                       /\ again.lut = last_updated_timestamp' ) ]_vars

----------------------------------------------------------------------------
(* Round trip *)

\* C7: load, save (succeeding), load yields the database of the first load:
\* the same mappings, the same metadata, the same last_updated.
C7_RoundTrip ==
    step = "done"
    => (definitions = snap.definitions /\ last_updated_timestamp = snap.lut)


\* C7 amended: load, save (succeeding), load yields the database of the first
\* load provided the snapshot that save wrote can be opened for reading by
\* the second load.
C7_RoundTripWhenReadable ==
    (step = "done" /\ cacheFile.readable)
    => (definitions = snap.definitions /\ last_updated_timestamp = snap.lut)

\* C7 happens: the first load built the database from the flat files, the
\* save succeeded, and the second load, run at a later time, came back from
\* the cache branch.
C7_Witness ==
    /\ step = "done"
    /\ cacheFile.readable
    /\ lastCall.op = "load"
    /\ lastCall.path = "cache"
    /\ definitions.meta.version = TxtVersion
    /\ definitions.md5 # EmptyMap
    /\ definitions.meta.last_updated # IsoFormat(lastCall.at)

----------------------------------------------------------------------------
(* State machine of the HeuristicEngine *)

\* The store as constructed, with no file on disk; nothing has been analyzed.
InitHeur ==
    /\ definitions = InitDefinitions
    /\ last_updated_timestamp = "Never"
    /\ cacheFile = CacheAbsent
    /\ markerFile = Absent
    /\ md5File = FileAbsent
    /\ sha256File = FileAbsent
    /\ now = 1
    /\ lastCall = NoCall
    /\ step = "free"
    /\ snap = [definitions |-> InitDefinitions, lut |-> "Never"]
    /\ lastAnalyze = NoAnalysis
    /\ MainNotStarted

\* heuristic_engine.analyze_file(filepath)
Analyze ==
    \E file \in Files, er \in ReadOutcomes, kr \in ReadOutcomes, sn \in SniffOutcomes :
        /\ lastAnalyze' =
              [called |-> TRUE, file |-> file, entropyRead |-> er, keywordRead |-> kr,
               sniff |-> sn, detections |-> AnalyzeFile(file, er, kr, sn)]
        /\ UNCHANGED <<dmVars, rtVars, mainVars>>

NextHeur == Analyze

SpecHeur == InitHeur /\ [][NextHeur]_vars

\* Position of a check in the fixed order entropy, keyword, extension-mismatch.
Rank(check) ==
    CASE check = "entropy" -> 1 [] check = "keyword" -> 2
      [] check = "extension" -> 3 [] OTHER -> 0

\* C10: analyze_file returns the findings of the three checks in the order
\* entropy, keyword, extension-mismatch, at most one per check, each present
\* iff its check produced one (a check that hit an error produces none and the
\* others still run); it returns the empty sequence when the path does not
\* exist or is not a regular file.
C10_AnalyzeOrderedFindings ==
    LET a == lastAnalyze
        d == a.detections
        e == CheckFileEntropy(a.file, a.entropyRead)
        k == CheckSuspiciousKeywords(a.file, a.keywordRead)
        x == CheckFileExtensionMismatch(a.file, a.sniff)
    IN  a.called =>
          /\ (~a.file.exists \/ ~a.file.isFile) => d = <<>>
          /\ (a.file.exists /\ a.file.isFile) =>
                /\ Len(d) <= 3
                /\ \A r \in {e, k, x} : r # NoFinding <=> \E i \in 1..Len(d) : d[i] = r
                /\ \A i \in 1..Len(d) : d[i] \in {e, k, x} /\ d[i] # NoFinding
                /\ \A i, j \in 1..Len(d) : i < j => Rank(d[i].check) < Rank(d[j].check)
                /\ a.entropyRead # "ok" => \A i \in 1..Len(d) : d[i].check # "entropy"
                /\ a.keywordRead # "ok" => \A i \in 1..Len(d) : d[i].check # "keyword"

\* C10 happens: the entropy check of a high-entropy file hit a permission
\* error, and the keyword and extension-mismatch checks still reported, in
\* that order.
C10_Witness ==
    /\ lastAnalyze.called
    /\ lastAnalyze.entropyRead = "denied"
    /\ lastAnalyze.file.entropy > EntropyThreshold
    /\ Len(lastAnalyze.detections) = 2
    /\ lastAnalyze.detections[1].check = "keyword"
    /\ lastAnalyze.detections[2].check = "extension"

\* The classification the keyword check is described with: the guessed type
\* names an executable, or the path carries an .exe or .dll extension.
ExecutableLike(file) ==
    \/ file.guessed # NoMime /\ Contains(file.guessed, WordExecutable)
    \/ EndsWithAny(file.path, ExeSuffixes)

\* The markers of the general list that the last keyword finding reports.
GeneralReported ==
    LET k == CheckSuspiciousKeywords(lastAnalyze.file, lastAnalyze.keywordRead)
    IN  { KeywordsGeneral[i] : i \in { j \in 1..Len(KeywordsGeneral) :
                                         InNonExecutable(KeywordsGeneral[j]) \in k.kws } }

\* C11: a general marker found in the content of a file is reported, as
\* "'<marker>' in non-executable", iff the file is not executable-like; for a
\* file with an executable type or an .exe/.dll extension no general marker is
\* reported, whatever the type lookup returns.
C11_GeneralMarkerIffNotExecutableLike ==
    LET a == lastAnalyze
    IN  (a.called /\ a.file.exists /\ a.file.isFile /\ a.keywordRead = "ok") =>
            \A m \in Matched(KeywordsGeneral, Lower(a.file.content)) :
                m \in GeneralReported <=> ~ExecutableLike(a.file)

\* C14: after construction and after every completed call of load_definitions
\* or update_definitions, whatever it returned, get_last_updated() equals the
\* last_updated field of the metadata of the in-memory database, and that
\* metadata object exists and has a version field.
C14_TimestampMirrorsMetadata ==
    (lastCall.op \in {"init", "load", "update"} /\ ~lastCall.raised) =>
        /\ definitions.isObject
        /\ definitions.meta.kind = "dict"
        /\ definitions.meta.version # Absent
        /\ last_updated_timestamp = definitions.meta.last_updated

----------------------------------------------------------------------------
(* One run of main(): load, startup update, then the command *)

\* Most results a directory scan returns.
MaxScanFiles == 2

\* ScanStatus, the statuses the scanner reports (spec section 4.3).
ScanStatuses == {"CLEAN", "INFECTED", "HEURISTIC_DETECTED", "NOT_FOUND", "NOT_FILE", "ERROR"}

\* The words of the command line, as typed.
ArgScan == <<"s", "c", "a", "n">>
ArgUpdate == <<"U", "P", "D", "A", "T", "E">>
ArgQuarantine == <<"q", "u", "a", "r", "a", "n", "t", "i", "n", "e">>
ArgList == <<"l", "i", "s", "t">>
ArgRestore == <<"R", "e", "s", "t", "o", "r", "e">>
ArgDelete == <<"d", "e", "l", "e", "t", "e">>
ArgLogs == <<"l", "o", "g", "s">>
ArgBogus == <<"f", "r", "o", "b">>
ArgPath == <<"t">>

\* The commands and subcommands main compares the lower-cased words with.
CmdScan == <<"s", "c", "a", "n">>
CmdUpdate == <<"u", "p", "d", "a", "t", "e">>
CmdQuarantine == <<"q", "u", "a", "r", "a", "n", "t", "i", "n", "e">>
CmdLogs == <<"l", "o", "g", "s">>
SubList == <<"l", "i", "s", "t">>
SubRestore == <<"r", "e", "s", "t", "o", "r", "e">>
SubDelete == <<"d", "e", "l", "e", "t", "e">>

\* sys.argv[1:] of the runs explored.
ArgLists ==
    { <<>>,
      <<ArgScan>>,
      <<ArgScan, ArgPath>>,
      <<ArgUpdate>>,
      <<ArgQuarantine>>,
      <<ArgQuarantine, ArgList>>,
      <<ArgQuarantine, ArgRestore>>,
      <<ArgQuarantine, ArgRestore, ArgPath>>,
      <<ArgQuarantine, ArgDelete>>,
      <<ArgQuarantine, ArgDelete, ArgPath>>,
      <<ArgQuarantine, ArgBogus>>,
      <<ArgLogs>>,
      <<ArgBogus>> }

\* What the scan target is on disk: missing, a regular file, a directory, or
\* something os.path.isfile and os.path.isdir both deny.
Targets == {"missing", "file", "dir", "other"}

\* The files a run starts with: a first start, a readable snapshot beside
\* flat files, and a snapshot that holds no JSON object.
FreshStore == [cache |-> CacheAbsent, md5 |-> FileAbsent, sha256 |-> FileAbsent]
MainStores ==
    { FreshStore,
      [cache |-> CacheJson(TRUE, Obj(TRUE, Put(EmptyMap, HashA32, Evil), TRUE, EmptyMap,
                                     MetaDict("2.0.0", "2025-12-31T00:00:00"))),
       md5 |-> FileLines(<<LineZ32Worm>>), sha256 |-> FileAbsent],
      [cache |-> CacheJson(TRUE, NonObject),
       md5 |-> FileLines(<<LineZ32Worm>>), sha256 |-> FileAbsent] }

\* The runs explored: every command line from every store, the scan of a
\* path with every kind of target.
MainRuns ==
    { r \in [store : MainStores, argv : ArgLists, target : Targets \cup {"none"}] :
        r.target # "none" <=> r.argv = <<ArgScan, ArgPath>> }

\* One call made by the run.
Ev(ev, path, status, detail) ==
    [ev |-> ev, path |-> path, status |-> status, detail |-> detail]

InitMain ==
    /\ definitions = InitDefinitions
    /\ last_updated_timestamp = "Never"
    /\ markerFile = Absent
    /\ \E r \in MainRuns :
          /\ cacheFile = r.store.cache
          /\ md5File = r.store.md5
          /\ sha256File = r.store.sha256
          /\ argv = r.argv
          /\ env = [target |-> r.target, found |-> <<>>]
    /\ now = 1
    /\ lastCall = NoCall
    /\ step = "free"
    /\ snap = [definitions |-> InitDefinitions, lut |-> "Never"]
    /\ lastAnalyze = NoAnalysis
    /\ pc = "start"
    /\ exitCode = -1
    /\ fetches = 0
    /\ cursor = 0
    /\ events = <<>>
    /\ scanLog = <<>>

\* definition_manager.load_definitions() at startup; an exception it raises
\* ends the run with a traceback.
MainLoad ==
    /\ pc = "start"
    /\ LoadOp
    /\ events' = Append(events, Ev("load", <<>>, "-", "-"))
    /\ IF lastCall'.raised
       THEN pc' = "crashed" /\ exitCode' = 1
       ELSE pc' = "loaded" /\ exitCode' = exitCode
    /\ UNCHANGED <<step, snap, lastAnalyze, argv, env, fetches, cursor, scanLog>>

\* The startup step that skips the update.
MainStartupUpdateSkipped ==
    /\ pc = "loaded"
    /\ pc' = "ready"
    /\ UNCHANGED <<dmVars, step, snap, lastAnalyze, argv, env, exitCode, fetches,
                   cursor, events, scanLog>>

\* definition_manager.update_definitions() at startup
MainStartupUpdate ==
    /\ pc = "loaded"
    /\ UpdateCall(FALSE)
    /\ fetches' = fetches + lastCall'.fetches
    /\ events' = Append(events, Ev("update", <<>>, "-", "unforced"))
    /\ pc' = "ready"
    /\ UNCHANGED <<step, snap, lastAnalyze, argv, env, exitCode, cursor, scanLog>>

Exit(code) == [pc |-> "done", exitCode |-> code]
Goto(label) == [pc |-> label, exitCode |-> -1]

\* The command dispatch of main: where the run goes next, or how it exits.
Dispatch(args, target) ==
    IF Len(args) < 1 THEN Exit(1)
    ELSE LET command == Lower(args[1])
         IN  CASE command = CmdScan ->
                    IF Len(args) < 2 THEN Exit(1)
                    ELSE IF target = "missing" THEN Exit(1)
                    ELSE IF target \in {"file", "dir"} THEN Goto("scan")
                    ELSE Exit(0)
               [] command = CmdUpdate -> Goto("updating")
               [] command = CmdQuarantine ->
                    IF Len(args) < 2 THEN Exit(1)
                    ELSE LET subcommand == Lower(args[2])
                         IN  CASE subcommand = SubList -> Exit(0)
                               [] subcommand \in {SubRestore, SubDelete} ->
                                    IF Len(args) < 3 THEN Exit(1) ELSE Exit(0)
                               [] OTHER -> Exit(0)
               [] command = CmdLogs -> Exit(0)
               [] OTHER -> Exit(0)

MainDispatch ==
    /\ pc = "ready"
    /\ pc' = Dispatch(argv, env.target).pc
    /\ exitCode' = Dispatch(argv, env.target).exitCode
    /\ UNCHANGED <<dmVars, step, snap, lastAnalyze, argv, env, fetches, cursor,
                   events, scanLog>>

\* The path of the i-th result of a directory scan.
ScanPath(i) == ArgPath \o <<"/", ToString(i)>>

\* What the scanner may return: one result for a file, one result per file
\* found for a directory, every result with exactly one status.
ScanResults(target, path) ==
    IF target = "file"
    THEN { <<[path |-> path, status |-> st]>> : st \in ScanStatuses }
    ELSE { [i \in 1..n |-> [path |-> ScanPath(i), status |-> f[i]]] :
             n \in 0..MaxScanFiles, f \in [1..MaxScanFiles -> ScanStatuses] }

\* scanner.scan_file / scanner.scan_directory
MainScan ==
    /\ pc = "scan"
    /\ \E found \in ScanResults(env.target, argv[2]) :
          /\ env' = [env EXCEPT !.found = found]
          /\ IF found = <<>>
             THEN pc' = "done" /\ exitCode' = 0 /\ cursor' = 0
             ELSE pc' = "logging" /\ exitCode' = exitCode /\ cursor' = 1
    /\ events' = Append(events, Ev("scan", argv[2], "-", env.target))
    /\ UNCHANGED <<dmVars, step, snap, lastAnalyze, argv, fetches, scanLog>>

\* The statuses below also prompt for every status but CLEAN.
NeedsPromptNotClean(status) == status # "CLEAN"

\* status in ["INFECTED", "HEURISTIC_DETECTED"]
NeedsPrompt(status) == status \in {"INFECTED", "HEURISTIC_DETECTED"}

\* What opening and appending to the scan log may do.
LogOutcomes == {"ok", "fail"}

\* logger.log_scan_result for the result at the cursor; a failed write is
\* reported and swallowed.
MainLogResult ==
    /\ pc = "logging"
    /\ LET res == env.found[cursor]
       IN  /\ \E w \in LogOutcomes :
                 /\ scanLog' = IF w = "ok" THEN Append(scanLog, res) ELSE scanLog
                 /\ events' = Append(events, Ev("log", res.path, res.status, w))
           /\ IF NeedsPrompt(res.status)
              THEN pc' = "prompting" /\ cursor' = cursor /\ exitCode' = exitCode
              ELSE IF cursor < Len(env.found)
              THEN pc' = "logging" /\ cursor' = cursor + 1 /\ exitCode' = exitCode
              ELSE pc' = "done" /\ cursor' = cursor /\ exitCode' = 0
    /\ UNCHANGED <<dmVars, step, snap, lastAnalyze, argv, env, fetches>>

\* What the user does at the prompt: answers yes or no (after any number of
\* other answers), or the input ends.
Answers == {"yes", "no", "eof"}

\* cli.ask_yes_no, then quarantine_manager.quarantine_file on yes
MainPrompt ==
    /\ pc = "prompting"
    /\ LET res == env.found[cursor]
       IN  \E ans \in Answers :
             /\ events' =
                   events \o <<Ev("prompt", res.path, res.status, ans)>>
                          \o (IF ans = "yes"
                              THEN <<Ev("quarantine", res.path, res.status, "-")>>
                              ELSE <<>>)
             /\ IF ans = "eof"
                THEN pc' = "crashed" /\ cursor' = cursor /\ exitCode' = 1
                ELSE IF cursor < Len(env.found)
                THEN pc' = "logging" /\ cursor' = cursor + 1 /\ exitCode' = exitCode
                ELSE pc' = "done" /\ cursor' = cursor /\ exitCode' = 0
    /\ UNCHANGED <<dmVars, step, snap, lastAnalyze, argv, env, fetches, scanLog>>

\* The update command: definition_manager.update_definitions(force=True)
MainForcedUpdate ==
    /\ pc = "updating"
    /\ UpdateCall(TRUE)
    /\ fetches' = fetches + lastCall'.fetches
    /\ events' = Append(events, Ev("update", <<>>, "-", "forced"))
    /\ pc' = "done"
    /\ exitCode' = 0
    /\ UNCHANGED <<step, snap, lastAnalyze, argv, env, cursor, scanLog>>

NextMain ==
    \/ MainLoad
    \/ MainStartupUpdate
    \/ MainDispatch
    \/ MainScan
    \/ MainLogResult
    \/ MainPrompt
    \/ MainForcedUpdate

SpecMain == InitMain /\ [][NextMain]_vars

\* A command line that is a usage error: no command, an unknown command, scan
\* without a path, quarantine without a subcommand, with an unknown one, or
\* with restore or delete and no argument.
UsageError(args) ==
    \/ Len(args) < 1
    \/ /\ Len(args) >= 1
       /\ \/ Lower(args[1]) \notin {CmdScan, CmdUpdate, CmdQuarantine, CmdLogs}
          \/ Lower(args[1]) = CmdScan /\ Len(args) < 2
          \/ /\ Lower(args[1]) = CmdQuarantine
             /\ \/ Len(args) < 2
                \/ /\ Len(args) >= 2
                   /\ \/ Lower(args[2]) \notin {SubList, SubRestore, SubDelete}
                      \/ Lower(args[2]) \in {SubRestore, SubDelete} /\ Len(args) < 3

\* The run was asked to scan a path that does not exist.
MissingScanTarget ==
    /\ Len(argv) >= 2
    /\ Lower(argv[1]) = CmdScan
    /\ env.target = "missing"

\* C12: a run of main that ends on its own exits with a non-zero code on every
\* usage error (no command, missing scan path, missing quarantine subcommand
\* or argument, unknown command, unknown quarantine subcommand) and when the
\* scan target does not exist, and with code 0 when the command completed.
C12_ExitCodes ==
    pc = "done" => (exitCode # 0 <=> (UsageError(argv) \/ MissingScanTarget))

\* The statuses that call for a quarantine prompt.
Flagged == {"INFECTED", "HEURISTIC_DETECTED"}

\* Number of calls of the kind ev the run has made for a path.
Calls(ev, path) ==
    Cardinality({ i \in 1..Len(events) : events[i].ev = ev /\ events[i].path = path })

\* Number of entries the audit log holds for a path.
Entries(path) ==
    Cardinality({ i \in 1..Len(scanLog) : scanLog[i].path = path })

\* quarantine_file is called on a path only right after the user answered yes
\* to the prompt for it, prompts are only made for flagged paths, and the
\* result of a path is logged before the prompt for it.
QuarantineOnlyOnYes ==
    \A i \in 1..Len(events) :
        /\ events[i].ev = "quarantine" =>
              /\ events[i].status \in Flagged
              /\ i > 1
              /\ events[i-1] = Ev("prompt", events[i].path, events[i].status, "yes")
        /\ events[i].ev \in {"prompt", "quarantine"} =>
              events[i].status \notin {"CLEAN", "NOT_FOUND", "NOT_FILE", "ERROR"}
        /\ events[i].ev = "prompt" =>
              \E j \in 1..(i-1) : events[j].ev = "log" /\ events[j].path = events[i].path

\* C13 as stated: in the scan command quarantine_file is invoked on a path
\* only if its status is INFECTED or HEURISTIC_DETECTED and the user answered
\* yes; a path with any other status is never prompted for or quarantined;
\* every scanned path is written to the audit log exactly once, before any
\* quarantine prompt for it.
C13_QuarantineOnlyFlaggedLoggedOnce ==
    /\ QuarantineOnlyOnYes
    /\ \A i \in 1..Len(events) :
          events[i].ev = "prompt" => Entries(events[i].path) = 1
    /\ pc = "done" =>
          \A k \in 1..Len(env.found) : Entries(env.found[k].path) = 1

\* C13, amended: as above for prompts and quarantine; when the scan command
\* completes, log_scan_result has been called exactly once for every scanned
\* path, before any prompt for it, and the audit log holds exactly one entry
\* for the path when the write succeeded and none when it failed.
C13_QuarantineOnlyFlaggedLogCalledOnce ==
    /\ QuarantineOnlyOnYes
    /\ \A k \in 1..Len(env.found) :
          LET path == env.found[k].path
          IN  /\ Calls("log", path) <= 1
              /\ Calls("prompt", path) <= 1
              /\ (pc = "done" \/ k < cursor) => Calls("log", path) = 1
              /\ Entries(path) =
                    Cardinality({ i \in 1..Len(events) :
                                    events[i] = Ev("log", path, env.found[k].status, "ok") })

\* C13 happens: a directory scan completed with an infected file that the
\* user had quarantined and a directory entry that was not prompted for, both
\* in the audit log.
C13_Witness ==
    /\ pc = "done"
    /\ Len(env.found) = 2
    /\ env.found[1].status = "INFECTED"
    /\ env.found[2].status = "NOT_FILE"
    /\ Calls("quarantine", env.found[1].path) = 1
    /\ Calls("prompt", env.found[2].path) = 0
    /\ Len(scanLog) = 2

\* The places of a run at and after the command dispatch.
Dispatched == {"ready", "scan", "logging", "prompting", "updating", "done"}

\* The calls of a run are the load, then the unforced update, then those of
\* the command; none follows a scan call that touches the store; the update
\* command has made two fetch attempts when it completes, the second forced.
LoadUpdateThenCommand ==
    /\ Len(events) >= 1 => events[1].ev = "load"
    /\ Len(events) >= 2 => events[2] = Ev("update", <<>>, "-", "unforced")
    /\ pc \in Dispatched => Len(events) >= 2 /\ fetches >= 1
    /\ \A i, j \in 1..Len(events) :
          (i < j /\ events[i].ev = "scan") => events[j].ev \notin {"load", "update"}
    /\ \A i \in 1..Len(events) : events[i].ev = "scan" => i = 3
    /\ (pc = "done" /\ Len(argv) >= 1 /\ Lower(argv[1]) = CmdUpdate) =>
          /\ fetches = 2
          /\ Len(events) = 3
          /\ events[3] = Ev("update", <<>>, "-", "forced")

\* C15: every run of main loads the store and then completes one non-forced
\* update attempt before the command is dispatched, so every change of the
\* signature store precedes the first scan_file/scan_directory call and none
\* happens while a scan is in progress; the update command makes exactly two
\* fetch attempts, the startup one and the forced one.
C15_StoreSettledBeforeScan ==
    [][ /\ LoadUpdateThenCommand'
        /\ (\E i \in 1..Len(events) : events[i].ev = "scan") =>
              UNCHANGED <<definitions, last_updated_timestamp, cacheFile, markerFile>>
        /\ (pc \in {"scan", "logging", "prompting"} \/ pc' \in {"scan", "logging", "prompting"}) =>
              UNCHANGED <<definitions, last_updated_timestamp, cacheFile, markerFile>>
      ]_vars

\* C15 happens: the startup update installed a fetched database, and the scan
\* that followed it has completed.
C15_Witness ==
    /\ pc = "done"
    /\ Len(events) >= 3
    /\ events[3].ev = "scan"
    /\ fetches = 1
    /\ markerFile # Absent
    /\ definitions # InitDefinitions

====
